---- MODULE Spec2Model ----
(***************************************************************************)
(* Model of at200pc.py: the control program for the LDG AT-200PC antenna   *)
(* tuner.  Application.main is the session loop (open the serial port,     *)
(* handshake, steady state); the Tk callbacks (buttons, window close) run  *)
(* only inside self.update(); Read is the 4-byte frame decoder together    *)
(* with the parameter store; Write is the RTS wake protocol.               *)
(***************************************************************************)
EXTENDS Integers, Sequences, FiniteSets, TLC

VARIABLES
  running,      \* self.running
  serial,       \* self.serial: None or the open port
  rts,          \* RTS pin of the serial interface (1 asserted, 0 deasserted)
  phase,        \* which loop of main() has been entered last
  pc,           \* position inside main()
  param1,       \* self.param1[0..19]
  param2,       \* self.param2[0..19]
  is_standby,   \* self.is_standby (None until an index 13/14 frame)
  tune_status,  \* self.tune_status
  rx_state,     \* self.rx_state
  rx_byte1,     \* self.rx_byte1
  rx_byte2,     \* self.rx_byte2
  autotune,     \* self.autotune (None until first assigned)
  time0,        \* time0 of main()
  now,          \* time.time()
  standby_var,  \* self.standby.var
  btntune_var,  \* self.btntune.var
  antenna_var,  \* self.antenna.var
  btntune_active, \* 1 iff self.btntune has activebackground c_pushed
  cmd,          \* code handed to Write by the last step (None: no Write call)
  wr,           \* bytes the last step put on the serial line
  chars,        \* chars read by the last step
  received,     \* the (byte1, byte2, byte3) triples the last Read decoded
  change,       \* return value of the last Read
  refreshed,    \* 1 iff the last step ran NewData to completion
  t40,          \* time of the latest byte 40 put on the serial line
  phase40,      \* the phase in which that byte was put on the line
  nreads,       \* number of non-empty reads so far
  nclicks,      \* number of button presses so far
  fed           \* every byte Read was given so far, where the decoder is
                \* specified on its own (SpecDecoder)

vars == << running, serial, rts, phase, pc, param1, param2, is_standby,
           tune_status, rx_state, rx_byte1, rx_byte2, autotune, time0, now,
           standby_var, btntune_var, antenna_var, btntune_active, cmd, wr,
           chars, received, change, refreshed, t40, phase40, nreads,
           nclicks, fed >>

(***************************************************************************)
(* Program constants and bounds                                            *)
(***************************************************************************)
None == 0 - 1

REQ_LIVEUPDATE == 63

NPARAM == 20

\* the object serial.Serial(port=TTY_NAME, timeout=0.05) returns
SerialPort == 1

SYNC == 165

\* the 1.0 of the one second wait; the clock counts whole seconds
OneSecond == 1

\* time.time() when the handshake starts (any value >= OneSecond)
StartTime == 1

\* the clock stops advancing here
MaxTime == 2

\* number of non-empty reads in one session
MaxReads == 2

\* number of button presses in one session
MaxClicks == 1

\* bytes of the wire frame with the given index and values
FrameBytes(i, a, b) == << SYNC, i, a, b >>

\* a burst that reports every parameter main() and NewData look at, with
\* auto-tune on and the tuner active, index 6 last
FullUpdate ==
  FrameBytes(19, 1, 0) \o FrameBytes(11, 1, 0) \o
  FrameBytes(1, 0, 0) \o FrameBytes(2, 0, 0) \o FrameBytes(3, 0, 0) \o
  FrameBytes(4, 0, 0) \o FrameBytes(5, 1, 0) \o FrameBytes(7, 1, 0) \o
  FrameBytes(16, 0, 0) \o FrameBytes(17, 1, 0) \o FrameBytes(18, 0, 0) \o
  FrameBytes(14, 0, 0) \o FrameBytes(6, 0, 0)

\* what one serial.read(1024) may return besides nothing
\* the shortest burst that ends the handshake
ShortReply == FrameBytes(19, 1, 0) \o FrameBytes(11, 1, 0) \o FrameBytes(6, 0, 0)

ReadInputs ==
  { FrameBytes(19, 1, 0), FrameBytes(6, 0, 0), FrameBytes(11, 1, 0),
    FrameBytes(17, 0, 0), FrameBytes(13, 0, 0), FrameBytes(9, 0, 0),
    FrameBytes(20, 1, 1),
    << SYNC >>, << 17, 1, 0 >>,
    ShortReply, FullUpdate }

(***************************************************************************)
(* Read: the frame decoder and the parameter store                         *)
(***************************************************************************)
Truthy(x) == x # None /\ x # 0

TuneFail(byte2) ==
  IF byte2 = 0 THEN "No RF"
  ELSE IF byte2 = 1 THEN "Lost RF"
  ELSE IF byte2 = 2 THEN "High SWR"
  ELSE "Error"

\* ApplyFrame with the range test off by one
ApplyFrame_OffByOne(st, byte1, byte2, byte3) ==
  IF byte1 > 20 THEN st
  ELSE
    LET ts == IF byte1 = 9 THEN "OK"
              ELSE IF byte1 = 10 THEN TuneFail(byte2)
              ELSE st.tune_status
        p2 == IF byte1 \in {9, 10} THEN [st.param2 EXCEPT ![6] = None]
              ELSE st.param2
        sb == IF byte1 = 13 THEN 1
              ELSE IF byte1 = 14 THEN 0
              ELSE st.is_standby
    IN [st EXCEPT !.tune_status = ts,
                  !.is_standby = sb,
                  !.param1 = [st.param1 EXCEPT ![byte1] = byte2],
                  !.param2 = [p2 EXCEPT ![byte1] = byte3],
                  !.change = 1]

\* ApplyFrame without the assignment to param2[byte1]
ApplyFrame_Param1Only(st, byte1, byte2, byte3) ==
  IF byte1 > 19 THEN st
  ELSE
    LET ts == IF byte1 = 9 THEN "OK"
              ELSE IF byte1 = 10 THEN TuneFail(byte2)
              ELSE st.tune_status
        p2 == IF byte1 \in {9, 10} THEN [st.param2 EXCEPT ![6] = None]
              ELSE st.param2
        sb == IF byte1 = 13 THEN 1
              ELSE IF byte1 = 14 THEN 0
              ELSE st.is_standby
    IN [st EXCEPT !.tune_status = ts,
                  !.is_standby = sb,
                  !.param1 = [st.param1 EXCEPT ![byte1] = byte2],
                  !.param2 = p2,
                  !.change = 1]

\* ApplyFrame with a tune result flipping param2[6] between set and unset
ApplyFrame_Toggle(st, byte1, byte2, byte3) ==
  IF byte1 > 19 THEN st
  ELSE
    LET ts == IF byte1 = 9 THEN "OK"
              ELSE IF byte1 = 10 THEN TuneFail(byte2)
              ELSE st.tune_status
        p2 == IF byte1 \in {9, 10}
              THEN [st.param2 EXCEPT ![6] = IF @ = None THEN 0 ELSE None]
              ELSE st.param2
        sb == IF byte1 = 13 THEN 1
              ELSE IF byte1 = 14 THEN 0
              ELSE st.is_standby
    IN [st EXCEPT !.tune_status = ts,
                  !.is_standby = sb,
                  !.param1 = [st.param1 EXCEPT ![byte1] = byte2],
                  !.param2 = [p2 EXCEPT ![byte1] = byte3],
                  !.change = 1]

\* the body of rx_state 3 after the three bytes are known
ApplyFrame(st, byte1, byte2, byte3) ==
  IF byte1 > 19 THEN st
  ELSE
    LET ts == IF byte1 = 9 THEN "OK"
              ELSE IF byte1 = 10 THEN TuneFail(byte2)
              ELSE st.tune_status
        p2 == IF byte1 \in {9, 10} THEN [st.param2 EXCEPT ![6] = None]
              ELSE st.param2
        sb == IF byte1 = 13 THEN 1
              ELSE IF byte1 = 14 THEN 0
              ELSE st.is_standby
    IN [st EXCEPT !.tune_status = ts,
                  !.is_standby = sb,
                  !.param1 = [st.param1 EXCEPT ![byte1] = byte2],
                  !.param2 = [p2 EXCEPT ![byte1] = byte3],
                  !.change = 1]

\* ReadChar starting a new frame at every sync byte
ReadChar_Resync(st, ch) ==
  IF st.rx_state = 0 \/ ch = SYNC THEN
    IF ch = SYNC THEN [st EXCEPT !.rx_state = 1] ELSE st
  ELSE IF st.rx_state = 1 THEN
    [st EXCEPT !.rx_state = 2, !.rx_byte1 = ch]
  ELSE IF st.rx_state = 2 THEN
    [st EXCEPT !.rx_state = 3, !.rx_byte2 = ch]
  ELSE
    ApplyFrame([st EXCEPT !.rx_state = 0,
                          !.received = Append(st.received,
                                              << st.rx_byte1, st.rx_byte2, ch >>)],
               st.rx_byte1, st.rx_byte2, ch)

\* ReadChar keeping the second byte where the first belongs
ReadChar_ClobberIndex(st, ch) ==
  IF st.rx_state = 0 THEN
    IF ch = SYNC THEN [st EXCEPT !.rx_state = 1] ELSE st
  ELSE IF st.rx_state = 1 THEN
    [st EXCEPT !.rx_state = 2, !.rx_byte1 = ch]
  ELSE IF st.rx_state = 2 THEN
    [st EXCEPT !.rx_state = 3, !.rx_byte1 = ch]
  ELSE
    ApplyFrame([st EXCEPT !.rx_state = 0,
                          !.received = Append(st.received,
                                              << st.rx_byte1, st.rx_byte2, ch >>)],
               st.rx_byte1, st.rx_byte2, ch)

\* one pass of the loop over chars
ReadChar(st, ch) ==
  IF st.rx_state = 0 THEN
    IF ch = SYNC THEN [st EXCEPT !.rx_state = 1] ELSE st
  ELSE IF st.rx_state = 1 THEN
    [st EXCEPT !.rx_state = 2, !.rx_byte1 = ch]
  ELSE IF st.rx_state = 2 THEN
    [st EXCEPT !.rx_state = 3, !.rx_byte2 = ch]
  ELSE
    ApplyFrame([st EXCEPT !.rx_state = 0,
                          !.received = Append(st.received,
                                              << st.rx_byte1, st.rx_byte2, ch >>)],
               st.rx_byte1, st.rx_byte2, ch)

\* the loop over chars[lo..hi], split in halves
RECURSIVE ReadRange(_, _, _, _)
ReadRange(st, cs, lo, hi) ==
  IF lo > hi THEN st
  ELSE IF lo = hi THEN ReadChar(st, cs[lo])
  ELSE LET mid == (lo + hi) \div 2
           half == ReadRange(st, cs, lo, mid)
       IN \* the test has TLC finish the first half before the second
          IF half.rx_state \in 0..3 THEN ReadRange(half, cs, mid + 1, hi)
          ELSE half

\* for ch in chars
ReadChars(st, cs) == ReadRange(st, cs, 1, Len(cs))

\* ReadState with the decoder starting over at every Read
ReadState_Restart ==
  [ rx_state |-> 0, rx_byte1 |-> rx_byte1, rx_byte2 |-> rx_byte2,
    param1 |-> param1, param2 |-> param2, is_standby |-> is_standby,
    tune_status |-> tune_status, change |-> 0, received |-> << >> ]

\* the decoder and store as Read finds them, with change = 0
ReadState ==
  [ rx_state |-> rx_state, rx_byte1 |-> rx_byte1, rx_byte2 |-> rx_byte2,
    param1 |-> param1, param2 |-> param2, is_standby |-> is_standby,
    tune_status |-> tune_status, change |-> 0, received |-> << >> ]

(***************************************************************************)
(* NewData: the display refresh                                            *)
(***************************************************************************)
\* NewData raises before it reaches the buttons
NewDataRaisesEarly(p1, p2, sb) ==
  \/ p1[5] = None \/ p2[5] = None
  \/ p1[18] = None \/ p2[18] = None
  \/ sb = None

\* NewData raises after the three check buttons were set
NewDataRaisesLate(p1, p2) ==
  \/ p1[16] = None \/ p1[16] > 6
  \/ p1[7] = None \/ p2[7] = None
  \/ p1[7] * 256 + p2[7] = 0
  \/ p1[1] = None \/ p1[2] = None

NewDataRaises(p1, p2, sb) ==
  NewDataRaisesEarly(p1, p2, sb) \/ NewDataRaisesLate(p1, p2)

(***************************************************************************)
(* Write: the wake protocol                                                *)
(***************************************************************************)
\* how one Write may go: every call succeeds, or setRTS(1), write or
\* setRTS(0) raises and the exception is printed
WriteOutcomes == { "ok", "rts_on_raises", "write_raises", "rts_off_raises" }

\* the RTS pin after Write
WriteRts(ser, r, outcome) ==
  IF ser = None \/ outcome = "rts_on_raises" THEN r
  ELSE IF outcome = "ok" THEN 0
  ELSE 1

\* the bytes Write put on the line
WriteBytes(ser, code, outcome) ==
  IF ser # None /\ outcome \in { "ok", "rts_off_raises" } THEN << code >>
  ELSE << >>

(***************************************************************************)
(* The decisions of the two loops of main()                                *)
(***************************************************************************)
\* the handshake loop found nothing left to ask for
Break == 0 - 2

\* the statement raised an exception that leaves main()
Raise == 0 - 3

\* HsCommand without the test of the version
HsCommand_NoVersion(p1, p2, t, t0) ==
  IF 64 - REQ_LIVEUPDATE # p1[19] THEN REQ_LIVEUPDATE
  ELSE IF p2[6] = None THEN (IF t - t0 >= OneSecond THEN 40 ELSE None)
  ELSE Break

\* HsCommand with the version asked for before the update
HsCommand_VersionFirst(p1, p2, t, t0) ==
  IF 64 - REQ_LIVEUPDATE # p1[19] THEN REQ_LIVEUPDATE
  ELSE IF p1[11] # 1 THEN 41
  ELSE IF p2[6] = None THEN (IF t - t0 >= OneSecond THEN 40 ELSE None)
  ELSE Break

\* HsCommand without the one second wait
HsCommand_NoWait(p1, p2, t, t0) ==
  IF 64 - REQ_LIVEUPDATE # p1[19] THEN REQ_LIVEUPDATE
  ELSE IF p2[6] = None THEN 40
  ELSE IF p1[11] # 1 THEN 41
  ELSE Break

\* the if/elif chain of the handshake loop: the code to Write, None when
\* the request is held back by the one second wait, or Break
HsCommand(p1, p2, t, t0) ==
  IF 64 - REQ_LIVEUPDATE # p1[19] THEN REQ_LIVEUPDATE
  ELSE IF p2[6] = None THEN (IF t - t0 >= OneSecond THEN 40 ELSE None)
  ELSE IF p1[11] # 1 THEN 41
  ELSE Break

\* RunCommand with the user's wish tested before standby
RunCommand_WishFirst(p1, p2, sb, at, t, t0) ==
  IF p2[6] = None THEN (IF t - t0 >= OneSecond THEN 40 ELSE None)
  ELSE IF sb = None THEN Raise
  ELSE IF at = p1[17] THEN None
  ELSE IF sb # 0 /\ p1[17] # 0 THEN 59
  ELSE IF sb = 0 THEN
    (IF at = None \/ 59 - at < 0 THEN Raise ELSE 59 - at)
  ELSE None

\* RunCommand with the two auto-tune codes exchanged
RunCommand_Exchanged(p1, p2, sb, at, t, t0) ==
  IF p2[6] = None THEN (IF t - t0 >= OneSecond THEN 40 ELSE None)
  ELSE IF sb = None THEN Raise
  ELSE IF sb # 0 /\ p1[17] # 0 THEN 59
  ELSE IF sb = 0 /\ at # p1[17] THEN
    (IF at = None \/ 58 + at > 127 THEN Raise ELSE 58 + at)
  ELSE None

\* RunCommand asking for the relay settings only when auto-tune is settled
RunCommand_StaleLast(p1, p2, sb, at, t, t0) ==
  IF sb # None /\ sb # 0 /\ p1[17] # 0 THEN 59
  ELSE IF sb # None /\ sb = 0 /\ at # p1[17] THEN
    (IF at = None \/ 59 - at < 0 THEN Raise ELSE 59 - at)
  ELSE IF p2[6] = None THEN (IF t - t0 >= OneSecond THEN 40 ELSE None)
  ELSE IF sb = None THEN Raise
  ELSE None

\* the if/elif chain of the steady state loop: the code to Write, None
\* when nothing is written, or Raise
RunCommand(p1, p2, sb, at, t, t0) ==
  IF p2[6] = None THEN (IF t - t0 >= OneSecond THEN 40 ELSE None)
  ELSE IF sb = None THEN Raise
  ELSE IF sb # 0 /\ p1[17] # 0 THEN 59
  ELSE IF sb = 0 /\ at # p1[17] THEN
    (IF at = None \/ 59 - at < 0 THEN Raise ELSE 59 - at)
  ELSE None

\* SeedAutotune keeping what the user asked for before
SeedAutotune_KeepWish(p1, at) == IF at = None THEN p1[17] ELSE at

\* self.autotune = self.param1[17]
SeedAutotune(p1, at) == p1[17]

\* the three check buttons after NewData
NewDataButtons(p1, p2, sb, cur) ==
  IF NewDataRaisesEarly(p1, p2, sb) THEN cur
  ELSE [ standby |-> IF Truthy(sb) THEN 1 ELSE 0,
         antenna |-> IF Truthy(p1[4]) THEN 1 ELSE 0,
         btntune |-> IF Truthy(p1[17]) THEN 0 ELSE 1 ]

Buttons ==
  [ standby |-> standby_var, antenna |-> antenna_var, btntune |-> btntune_var ]

SetButtons(b) ==
  /\ standby_var' = b.standby
  /\ antenna_var' = b.antenna
  /\ btntune_var' = b.btntune

Min(a, b) == IF a < b THEN a ELSE b

\* bookkeeping of the bytes 40 on the line
Stamp(bytes) ==
  IF \E k \in 1..Len(bytes) : bytes[k] = 40
  THEN t40' = now /\ phase40' = phase
  ELSE UNCHANGED << t40, phase40 >>

\* the step called neither Read nor NewData
NoRead ==
  /\ chars' = << >>
  /\ received' = << >>
  /\ change' = 0
  /\ refreshed' = 0

\* self.Write(chr(code)) with the given outcome
DoWrite(code, outcome) ==
  /\ outcome = "ok" \/ serial # None
  /\ cmd' = code
  /\ wr' = WriteBytes(serial, code, outcome)
  /\ rts' = WriteRts(serial, rts, outcome)
  /\ Stamp(WriteBytes(serial, code, outcome))

NoWrite ==
  /\ cmd' = None
  /\ wr' = << >>
  /\ UNCHANGED << rts, t40, phase40 >>

(***************************************************************************)
(* Init: the state after Application.__init__                              *)
(***************************************************************************)
Init ==
  /\ running = 1
  /\ serial = None
  /\ rts = 0
  /\ phase = "Connecting"
  /\ pc = "conn_try"
  /\ param1 = [i \in 0..(NPARAM - 1) |-> None]
  /\ param2 = [i \in 0..(NPARAM - 1) |-> None]
  /\ is_standby = None
  /\ tune_status = "None"
  /\ rx_state = 0
  /\ rx_byte1 = None
  /\ rx_byte2 = None
  /\ autotune = None
  /\ time0 = 0
  /\ now = StartTime
  /\ standby_var = 0
  /\ btntune_var = 0
  /\ antenna_var = 0
  /\ btntune_active = 0
  /\ cmd = None
  /\ wr = << >>
  /\ chars = << >>
  /\ received = << >>
  /\ change = 0
  /\ refreshed = 0
  /\ t40 = None
  /\ phase40 = "Connecting"
  /\ nreads = 0
  /\ nclicks = 0
  /\ fed = << >>

\* the decoder and the parameter store
store ==
  << param1, param2, is_standby, tune_status, rx_state, rx_byte1, rx_byte2 >>

\* the variables of the three check buttons
buttons == << standby_var, btntune_var, antenna_var >>

\* the loop of main() a position belongs to
PhaseAt(p, old) ==
  IF p \in { "conn_try", "conn_update" } THEN "Connecting"
  ELSE IF p \in { "hs_eval", "hs_read", "hs_update" } THEN "Handshaking"
  ELSE IF p \in { "tr_update", "run_eval", "run_read", "run_update" }
    THEN "Running"
  ELSE old

(***************************************************************************)
(* main(): opening the serial port                                         *)
(***************************************************************************)
\* one pass of the first loop up to self.update()
ConnectTry ==
  /\ pc = "conn_try"
  /\ \E outcome \in { "no_port", "opened", "rts_raises" } :
       /\ serial' = IF outcome = "no_port" THEN None ELSE SerialPort
       /\ rts' = IF outcome = "opened" THEN 0
                 ELSE IF outcome = "rts_raises" THEN 1
                 ELSE rts
  /\ pc' = "conn_update"
  /\ phase' = PhaseAt(pc', phase)
  /\ cmd' = None
  /\ wr' = << >>
  /\ NoRead
  /\ UNCHANGED << running, store, autotune, time0, now, buttons,
                  btntune_active, t40, phase40, nreads, fed, nclicks >>

(***************************************************************************)
(* main(): the handshake loop                                              *)
(***************************************************************************)
\* the if/elif chain of one pass; on break the statements up to the
\* self.update() that follows NewData
HsEval ==
  /\ pc = "hs_eval"
  /\ LET c == HsCommand(param1, param2, now, time0) IN
       IF c = Break THEN
         /\ autotune' = SeedAutotune(param1, autotune)
         /\ pc' = IF NewDataRaises(param1, param2, is_standby)
                  THEN "crashed" ELSE "tr_update"
         /\ phase' = "Running"
         /\ refreshed' = IF NewDataRaises(param1, param2, is_standby)
                         THEN 0 ELSE 1
         /\ SetButtons(NewDataButtons(param1, param2, is_standby, Buttons))
         /\ NoWrite
         /\ UNCHANGED time0
       ELSE
         /\ IF c = None THEN NoWrite
            ELSE \E outcome \in WriteOutcomes : DoWrite(c, outcome)
         /\ time0' = IF c = 40 THEN now ELSE time0
         /\ pc' = "hs_read"
         /\ phase' = PhaseAt(pc', phase)
         /\ refreshed' = 0
         /\ UNCHANGED << autotune, buttons >>
  /\ chars' = << >>
  /\ received' = << >>
  /\ change' = 0
  /\ UNCHANGED << running, serial, store, now, btntune_active, nreads, fed,
                  nclicks >>

\* self.Read() given cs: the bytes through the decoder into the store
ReadInto(cs) ==
  LET st == ReadChars(ReadState, cs) IN
    /\ chars' = cs
    /\ received' = st.received
    /\ change' = st.change
    /\ rx_state' = st.rx_state
    /\ rx_byte1' = st.rx_byte1
    /\ rx_byte2' = st.rx_byte2
    /\ param1' = st.param1
    /\ param2' = st.param2
    /\ is_standby' = st.is_standby
    /\ tune_status' = st.tune_status

\* self.Read() in main(): the bytes that arrived, and the time the read took
DoRead(cs, d) ==
  /\ ReadInto(cs)
  /\ now' = Min(now + d, MaxTime)
  /\ nreads' = IF cs = << >> THEN nreads ELSE nreads + 1

\* what self.serial.read(1024) may return now, of the given bursts
ArrivalsOf(inputs) ==
  IF serial = None \/ nreads >= MaxReads THEN { << >> }
  ELSE { << >> } \cup inputs

Arrivals == ArrivalsOf(ReadInputs)

\* self.Read() of the handshake loop
HsReadOf(inputs) ==
  /\ pc = "hs_read"
  /\ \E cs \in ArrivalsOf(inputs), d \in {0, 1} : DoRead(cs, d)
  /\ pc' = "hs_update"
  /\ phase' = PhaseAt(pc', phase)
  /\ refreshed' = 0
  /\ NoWrite
  /\ UNCHANGED << running, serial, autotune, time0, buttons, btntune_active,
                  nclicks, fed >>

HsRead == HsReadOf(ReadInputs)

(***************************************************************************)
(* main(): the steady state loop                                           *)
(***************************************************************************)
\* RunEval giving up the user's wish when standby forces auto-tune off
RunEval_OverrideClearsWish ==
  /\ pc = "run_eval"
  /\ LET c == RunCommand(param1, param2, is_standby, autotune, now, time0) IN
       /\ IF c = None \/ c = Raise THEN NoWrite
          ELSE \E outcome \in WriteOutcomes : DoWrite(c, outcome)
       /\ time0' = IF c = 40 THEN now ELSE time0
       /\ pc' = IF c = Raise THEN "crashed" ELSE "run_read"
       /\ autotune' = IF c = 59 /\ Truthy(is_standby) THEN 0 ELSE autotune
  /\ phase' = PhaseAt(pc', phase)
  /\ NoRead
  /\ UNCHANGED << running, serial, store, now, buttons,
                  btntune_active, nreads, fed, nclicks >>

RunEval ==
  /\ pc = "run_eval"
  /\ LET c == RunCommand(param1, param2, is_standby, autotune, now, time0) IN
       /\ IF c = None \/ c = Raise THEN NoWrite
          ELSE \E outcome \in WriteOutcomes : DoWrite(c, outcome)
       /\ time0' = IF c = 40 THEN now ELSE time0
       /\ pc' = IF c = Raise THEN "crashed" ELSE "run_read"
  /\ phase' = PhaseAt(pc', phase)
  /\ NoRead
  /\ UNCHANGED << running, serial, store, autotune, now, buttons,
                  btntune_active, nreads, fed, nclicks >>

\* if self.Read(): self.NewData()
RunReadOf(inputs) ==
  /\ pc = "run_read"
  /\ \E cs \in ArrivalsOf(inputs), d \in {0, 1} : DoRead(cs, d)
  /\ IF change' = 1 THEN
       /\ pc' = IF NewDataRaises(param1', param2', is_standby')
                THEN "crashed" ELSE "run_update"
       /\ refreshed' = IF NewDataRaises(param1', param2', is_standby')
                       THEN 0 ELSE 1
       /\ SetButtons(NewDataButtons(param1', param2', is_standby', Buttons))
     ELSE
       /\ pc' = "run_update"
       /\ refreshed' = 0
       /\ UNCHANGED buttons
  /\ phase' = PhaseAt(pc', phase)
  /\ NoWrite
  /\ UNCHANGED << running, serial, autotune, time0, btntune_active, nclicks,
                  fed >>

RunRead == RunReadOf(ReadInputs)

(***************************************************************************)
(* self.update(): the callbacks and the return to main()                   *)
(***************************************************************************)
UpdatePcs == { "conn_update", "hs_update", "tr_update", "run_update" }

\* Tk dispatches a callback: main() is inside self.update() and the
\* window has not been destroyed
InUpdate == pc \in UpdatePcs /\ running = 1

\* a button is pressed
Click == InUpdate /\ nclicks < MaxClicks /\ nclicks' = nclicks + 1

\* AfterUpdate going back to the handshake when the port is gone
AfterUpdate_Rehandshake(p, ser, run) ==
  IF p = "conn_update" THEN
    (IF ser = None /\ run = 1 THEN "conn_try"
     ELSE IF ser = None THEN "done"
     ELSE "hs_eval")
  ELSE IF p = "hs_update" THEN (IF run = 1 THEN "hs_eval" ELSE "done")
  ELSE (IF run = 1 THEN "run_eval" ELSE "hs_eval")

\* AfterUpdate with loops that do not test self.running
AfterUpdate_NoStop(p, ser, run) ==
  IF p = "conn_update" THEN
    (IF ser = None /\ run = 1 THEN "conn_try"
     ELSE IF ser = None THEN "done"
     ELSE "hs_eval")
  ELSE IF p = "hs_update" THEN "hs_eval"
  ELSE "run_eval"

\* where main() goes on when self.update() returns: the loop conditions
AfterUpdate(p, ser, run) ==
  IF p = "conn_update" THEN
    (IF ser = None /\ run = 1 THEN "conn_try"
     ELSE IF ser = None THEN "done"
     ELSE "hs_eval")
  ELSE IF p = "hs_update" THEN (IF run = 1 THEN "hs_eval" ELSE "done")
  ELSE (IF run = 1 THEN "run_eval" ELSE "done")

\* self.update() returns and main() goes on to the next statement
UpdateReturn ==
  /\ pc \in UpdatePcs
  /\ pc' = AfterUpdate(pc, serial, running)
  /\ phase' = PhaseAt(pc', phase)
  /\ time0' = IF (pc = "conn_update" /\ pc' = "hs_eval") \/ pc = "tr_update"
              THEN 0 ELSE time0
  /\ NoWrite
  /\ NoRead
  /\ UNCHANGED << running, serial, store, autotune, now, buttons,
                  btntune_active, nreads, fed, nclicks >>

WmDeleteWindow ==
  /\ InUpdate
  /\ serial' = None
  /\ running' = 0
  /\ NoWrite
  /\ NoRead
  /\ UNCHANGED << phase, pc, store, autotune, time0, now, buttons,
                  btntune_active, nreads, fed, nclicks >>

\* the req of the seven push buttons wired to OnButtonReq
ReqButtons == { 1, 2, 3, 4, 5, 6, 46 }

\* a callback that only writes one code
WriteOnly(code) ==
  /\ \E outcome \in WriteOutcomes : DoWrite(code, outcome)
  /\ NoRead
  /\ UNCHANGED << running, serial, phase, pc, store, autotune, time0, now,
                  btntune_active, nreads, fed >>

OnButtonReq ==
  /\ Click
  /\ \E req \in ReqButtons : WriteOnly(req)
  /\ UNCHANGED buttons

OnButtonHiLoZ ==
  /\ Click
  /\ WriteOnly(IF Truthy(param1[3]) THEN 8 ELSE 9)
  /\ UNCHANGED buttons

\* the check button flips its variable, then calls the handler
OnButtonAnt ==
  /\ Click
  /\ antenna_var' = 1 - antenna_var
  /\ WriteOnly(IF antenna_var' = 1 THEN 11 ELSE 10)
  /\ UNCHANGED << standby_var, btntune_var >>

OnButtonStandby ==
  /\ Click
  /\ standby_var' = 1 - standby_var
  /\ \E outcome \in WriteOutcomes :
       DoWrite(IF standby_var' = 1 THEN 44 ELSE 45, outcome)
  /\ param2' = [param2 EXCEPT ![6] = None]
  /\ NoRead
  /\ UNCHANGED << running, serial, phase, pc, param1, is_standby,
                  tune_status, rx_state, rx_byte1, rx_byte2, autotune, time0,
                  now, btntune_var, antenna_var, btntune_active, nreads, fed >>

\* OnButtonAuto recording the wish in the reported auto-tune flag as well
OnButtonAuto_SetsReported ==
  /\ Click
  /\ btntune_var' = 1 - btntune_var
  /\ btntune_active' = btntune_var'
  /\ autotune' = IF btntune_var' = 1 THEN 0 ELSE 1
  /\ param1' = [param1 EXCEPT ![17] = autotune']
  /\ NoWrite
  /\ NoRead
  /\ UNCHANGED << running, serial, phase, pc, param2, is_standby, tune_status,
                  rx_state, rx_byte1, rx_byte2, time0, now, standby_var,
                  antenna_var, nreads, fed >>

OnButtonAuto ==
  /\ Click
  /\ btntune_var' = 1 - btntune_var
  /\ btntune_active' = btntune_var'
  /\ autotune' = IF btntune_var' = 1 THEN 0 ELSE 1
  /\ NoWrite
  /\ NoRead
  /\ UNCHANGED << running, serial, phase, pc, store, time0, now,
                  standby_var, antenna_var, nreads, fed >>

\* the seven radio buttons of the SWR threshold row
OnButtonSwr ==
  /\ Click
  /\ \E k \in 0..6 : WriteOnly(k + 50)
  /\ UNCHANGED buttons

Next ==
  \/ ConnectTry
  \/ HsEval
  \/ HsRead
  \/ RunEval
  \/ RunRead
  \/ UpdateReturn
  \/ WmDeleteWindow
  \/ OnButtonReq
  \/ OnButtonHiLoZ
  \/ OnButtonAnt
  \/ OnButtonStandby
  \/ OnButtonAuto
  \/ OnButtonSwr

Spec == Init /\ [][Next]_vars

(***************************************************************************)
(* main() with a device that reports tune results and other values         *)
(***************************************************************************)
\* the full update of a device that reports 2 as its auto-tune value
FullUpdateTwo ==
  FrameBytes(19, 1, 0) \o FrameBytes(11, 1, 0) \o
  FrameBytes(1, 0, 0) \o FrameBytes(2, 0, 0) \o FrameBytes(3, 0, 0) \o
  FrameBytes(4, 0, 0) \o FrameBytes(5, 1, 0) \o FrameBytes(7, 1, 0) \o
  FrameBytes(16, 0, 0) \o FrameBytes(17, 2, 0) \o FrameBytes(18, 0, 0) \o
  FrameBytes(14, 0, 0) \o FrameBytes(6, 0, 0)

\* the two full updates, the tune results, the relay settings, auto-tune
\* off and a frequency period of 0
DeviceInputs ==
  { FullUpdate, FullUpdateTwo,
    FrameBytes(9, 0, 0), FrameBytes(10, 0, 0), FrameBytes(10, 1, 0),
    FrameBytes(10, 2, 0), FrameBytes(10, 3, 0), FrameBytes(6, 0, 0),
    FrameBytes(17, 0, 0), FrameBytes(7, 0, 0) }

DevHsRead == HsReadOf(DeviceInputs)

DevRunRead == RunReadOf(DeviceInputs)

DevNext ==
  \/ ConnectTry
  \/ HsEval
  \/ DevHsRead
  \/ RunEval
  \/ DevRunRead
  \/ UpdateReturn
  \/ WmDeleteWindow
  \/ OnButtonReq
  \/ OnButtonHiLoZ
  \/ OnButtonAnt
  \/ OnButtonStandby
  \/ OnButtonAuto
  \/ OnButtonSwr

SpecDevice == Init /\ [][DevNext]_vars

(***************************************************************************)
(* main() with a device that is in standby when the handshake ends         *)
(***************************************************************************)
\* the full update of a tuner in standby with auto-tune on
FullUpdateStandby ==
  FrameBytes(19, 1, 0) \o FrameBytes(11, 1, 0) \o
  FrameBytes(1, 0, 0) \o FrameBytes(2, 0, 0) \o FrameBytes(3, 0, 0) \o
  FrameBytes(4, 0, 0) \o FrameBytes(5, 1, 0) \o FrameBytes(7, 1, 0) \o
  FrameBytes(16, 0, 0) \o FrameBytes(17, 1, 0) \o FrameBytes(18, 0, 0) \o
  FrameBytes(13, 0, 0) \o FrameBytes(6, 0, 0)

\* auto-tune reported off, then the tuner active again, in one burst
StandbyEnds == FrameBytes(17, 0, 0) \o FrameBytes(14, 0, 0)

\* the two full updates, the end of standby, and the frames of it singly
StandbyInputs ==
  { FullUpdate, FullUpdateStandby, StandbyEnds,
    FrameBytes(13, 0, 0), FrameBytes(14, 0, 0), FrameBytes(17, 0, 0),
    FrameBytes(17, 1, 0) }

SbHsRead == HsReadOf(StandbyInputs)

SbRunRead == RunReadOf(StandbyInputs)

SbNext ==
  \/ ConnectTry
  \/ HsEval
  \/ SbHsRead
  \/ RunEval
  \/ SbRunRead
  \/ UpdateReturn
  \/ WmDeleteWindow
  \/ OnButtonReq
  \/ OnButtonHiLoZ
  \/ OnButtonAnt
  \/ OnButtonStandby
  \/ OnButtonAuto
  \/ OnButtonSwr

SpecStandby == Init /\ [][SbNext]_vars

(***************************************************************************)
(* Read on its own: the decoder given every byte sequence                  *)
(***************************************************************************)
\* the bytes the decoder is given: the sync byte, the index of the relay
\* settings and the index of a tune result, each of them also a value
DecBytes == { SYNC, 6, 9 }

\* number of bytes the decoder is given in all
MaxFed == 7

\* the sequences of at most n of these bytes
RECURSIVE SeqsUpTo(_)
SeqsUpTo(n) ==
  IF n = 0 THEN { << >> }
  ELSE LET S == SeqsUpTo(n - 1) IN
         S \cup { Append(s, b) : s \in { t \in S : Len(t) = n - 1 },
                                 b \in DecBytes }

\* the decoder and the store as __init__ leaves them
FreshState ==
  [ rx_state |-> 0, rx_byte1 |-> None, rx_byte2 |-> None,
    param1 |-> [i \in 0..(NPARAM - 1) |-> None],
    param2 |-> [i \in 0..(NPARAM - 1) |-> None],
    is_standby |-> None, tune_status |-> "None", change |-> 0,
    received |-> << >> ]

\* main() at the first self.Read() of the handshake loop: the port is open
\* and 63 has been written
DecInit ==
  /\ running = 1
  /\ serial = SerialPort
  /\ rts = 0
  /\ phase = "Handshaking"
  /\ pc = "hs_read"
  /\ param1 = FreshState.param1
  /\ param2 = FreshState.param2
  /\ is_standby = FreshState.is_standby
  /\ tune_status = FreshState.tune_status
  /\ rx_state = FreshState.rx_state
  /\ rx_byte1 = FreshState.rx_byte1
  /\ rx_byte2 = FreshState.rx_byte2
  /\ autotune = None
  /\ time0 = 0
  /\ now = StartTime
  /\ standby_var = 0
  /\ btntune_var = 0
  /\ antenna_var = 0
  /\ btntune_active = 0
  /\ cmd = REQ_LIVEUPDATE
  /\ wr = << REQ_LIVEUPDATE >>
  /\ chars = << >>
  /\ received = << >>
  /\ change = 0
  /\ refreshed = 0
  /\ t40 = None
  /\ phase40 = "Connecting"
  /\ nreads = 0
  /\ nclicks = 0
  /\ fed = << >>

\* one call of self.Read(), whatever self.serial.read(1024) returns
DecRead ==
  /\ \E cs \in SeqsUpTo(MaxFed - Len(fed)) :
       /\ ReadInto(cs)
       /\ fed' = fed \o cs
  /\ UNCHANGED << running, serial, rts, phase, pc, autotune, time0, now,
                  buttons, btntune_active, cmd, wr, refreshed, t40, phase40,
                  nreads, nclicks >>

DecNext == DecRead

SpecDecoder == DecInit /\ [][DecNext]_vars

(***************************************************************************)
(* Read given whole frames: the store on its own                           *)
(***************************************************************************)
\* the triples the frames carry: the relay settings, the tune results, the
\* two standby indices, an ordinary index and one out of range
FrameTriples ==
  { << 6, 1, 1 >>, << 9, 0, 0 >>, << 10, 0, 0 >>, << 10, 1, 0 >>,
    << 10, 2, 0 >>, << 10, 3, 0 >>, << 13, 0, 0 >>, << 14, 0, 0 >>,
    << 17, 1, 0 >>, << 20, 1, 1 >> }

\* number of frames the store is given in all
MaxFrames == 3

\* one call of self.Read() that is given one frame
FrameRead ==
  /\ Len(fed) < 4 * MaxFrames
  /\ \E t \in FrameTriples :
       /\ ReadInto(FrameBytes(t[1], t[2], t[3]))
       /\ fed' = fed \o FrameBytes(t[1], t[2], t[3])
  /\ UNCHANGED << running, serial, rts, phase, pc, autotune, time0, now,
                  buttons, btntune_active, cmd, wr, refreshed, t40, phase40,
                  nreads, nclicks >>

FrameNext == FrameRead

SpecFrames == DecInit /\ [][FrameNext]_vars

(***************************************************************************)
(* Properties                                                              *)
(***************************************************************************)
PhaseRank(ph) ==
  IF ph = "Connecting" THEN 0 ELSE IF ph = "Handshaking" THEN 1 ELSE 2

\* the three conditions that end the handshake
HsReady(p1, p2) == p1[19] = 1 /\ p2[6] # None /\ p1[11] = 1

Has40(bytes) == \E k \in 1..Len(bytes) : bytes[k] = 40

\* the store entries of index i differ across the step
Changed(i) == param1'[i] # param1[i] \/ param2'[i] # param2[i]

\* the positions of the frames for index i among those just decoded
FramesFor(i) == { k \in 1..Len(received') : received'[k][1] = i }

\* the latest frame for index i among those just decoded
LastFor(i) ==
  received'[CHOOSE k \in FramesFor(i) : \A j \in FramesFor(i) : j <= k]

\* both entries of index i hold the two values of that frame
PairWritten(i) ==
  /\ FramesFor(i) # {}
  /\ param1'[i] = LastFor(i)[2]
  /\ param2'[i] = LastFor(i)[3]

\* C1: the phase never goes back: every step keeps the phase or moves it
\* to the next one of Connecting, Handshaking, Running.
C1_PhaseForward ==
  [][ PhaseRank(phase') \in { PhaseRank(phase), PhaseRank(phase) + 1 } ]_vars

\* frames were received in the steady state loop, after both earlier phases
C1_Witness ==
  phase = "Running" /\ pc = "run_update" /\ received # << >> /\ refreshed = 1

\* C2: Running is entered only from Handshaking, by a pass of the handshake
\* loop that finds param1[19] = 1, param2[6] set and param1[11] = 1; a pass
\* that finds one of them unmet stays in Handshaking; Running is never left,
\* so it is entered at most once.
C2_HandshakeExit ==
  [][ /\ (phase' = "Running" /\ phase # "Running")
         => (phase = "Handshaking" /\ pc = "hs_eval"
             /\ HsReady(param1, param2))
      /\ (pc = "hs_eval" /\ ~HsReady(param1, param2))
         => phase' = "Handshaking"
      /\ phase = "Running" => phase' = "Running" ]_vars

\* the handshake has just ended with the three conditions met
C2_Witness ==
  /\ phase = "Running" /\ pc = "tr_update" /\ refreshed = 1
  /\ HsReady(param1, param2)
  /\ t40 # None

\* C3: the step that leaves Handshaking for Running sets autotune to the
\* param1[17] of that moment, whatever the Auto button did before.
C3_SeedFromDevice ==
  [][ (phase = "Handshaking" /\ phase' = "Running")
      => (autotune' = param1[17] /\ param1' = param1) ]_vars

\* the Auto button was pressed before the handshake ended (it asked for
\* off), and autotune now is the reported 1
C3_Witness ==
  /\ phase = "Running" /\ pc = "tr_update" /\ refreshed = 1
  /\ btntune_active = 1
  /\ param1[17] = 1 /\ autotune = 1

\* C4: a pass of the handshake loop hands at most one code to Write, and
\* the code follows the priority 63, 40, 41: 63 exactly when param1[19] is
\* not 1; 40 only when param1[19] = 1 and param2[6] is unset; 41 only when
\* param1[19] = 1, param2[6] is set and param1[11] is not 1.  Read and the
\* return from update write nothing.
C4_HandshakePriority ==
  [][ /\ pc = "hs_eval" =>
           /\ cmd' \in { None, 63, 40, 41 }
           /\ wr' \in { << >>, << cmd' >> }
           /\ cmd' = None => wr' = << >>
           /\ cmd' = 63 <=> param1[19] # 1
           /\ cmd' = 40 => (param1[19] = 1 /\ param2[6] = None)
           /\ cmd' = 41 => (param1[19] = 1 /\ param2[6] # None
                            /\ param1[11] # 1)
      /\ (pc = "hs_read" \/ (pc = "hs_update" /\ pc' # pc)) =>
           (cmd' = None /\ wr' = << >>) ]_vars

\* the version was asked for, after the live update and the relay settings
C4_Witness ==
  /\ pc = "hs_read" /\ cmd = 41 /\ wr = << 41 >>
  /\ param1[19] = 1 /\ param2[6] # None

\* C5 as stated: whenever a byte 40 goes on the line, the one before went
\* at least one second earlier, in whichever phase that was.
C5_Original ==
  [][ (Has40(wr') /\ t40 # None) => now - t40 >= OneSecond ]_vars

\* C5 amended: two bytes 40 put on the line in the same phase are at least
\* one second apart.
C5_ThrottlePerPhase ==
  [][ (Has40(wr') /\ t40 # None /\ phase40 = phase)
      => now - t40 >= OneSecond ]_vars

\* a pass of the handshake loop held the request back: one went out less
\* than a second ago and param2[6] is still unset
C5_Witness ==
  /\ pc = "hs_read" /\ cmd = None
  /\ param1[19] = 1 /\ param2[6] = None
  /\ t40 # None /\ phase40 = "Handshaking" /\ now - t40 < OneSecond

\* C6 as stated: a pass of the steady state loop that finds standby on and
\* param1[17] = 1 hands 59, the code main() uses for auto-tune off, to Write.
C6_Original ==
  [][ (pc = "run_eval" /\ is_standby = 1 /\ param1[17] = 1)
      => cmd' = 59 ]_vars

\* C6 amended: the same, for a pass that finds param2[6] set.
C6_StandbyForcesOff ==
  [][ (pc = "run_eval" /\ is_standby = 1 /\ param1[17] = 1
       /\ param2[6] # None)
      => cmd' = 59 ]_vars

\* an index 13 frame arrived in the steady state loop while the user's wish
\* and the device both say auto-tune on; the next pass sent 59
C6_Witness ==
  /\ pc = "run_read" /\ cmd = 59 /\ wr = << 59 >>
  /\ is_standby = 1 /\ param1[17] = 1 /\ autotune = 1

\* C7 as stated: with param2[6] set, standby off and autotune (0 or 1)
\* different from param1[17], the code handed to Write is 59 for autotune 1
\* and 58 for autotune 0.
C7_Original ==
  [][ (pc = "run_eval" /\ param2[6] # None /\ is_standby = 0
       /\ autotune \in {0, 1} /\ autotune # param1[17])
      => cmd' = 58 + autotune ]_vars

\* C7 amended: the code is 59 - autotune: 58 for autotune 1, 59 for
\* autotune 0.
C7_WishCode ==
  [][ (pc = "run_eval" /\ param2[6] # None /\ is_standby = 0
       /\ autotune \in {0, 1} /\ autotune # param1[17])
      => cmd' = 59 - autotune ]_vars

\* the user wants auto-tune on, the device reports it off: 58 was sent
C7_Witness ==
  /\ pc = "run_read" /\ cmd = 58 /\ wr = << 58 >>
  /\ autotune = 1 /\ param1[17] = 0 /\ is_standby = 0 /\ param2[6] # None

\* C8: from the step that handles the window close on, the port is closed,
\* nothing is handed to Write or put on the line, the phase stays what it
\* was, and main() only goes from the update it is in to its end.
C8_Cancel ==
  [][ running' = 0 =>
        /\ serial' = None
        /\ cmd' = None /\ wr' = << >>
        /\ phase' = phase
        /\ pc' \in { pc, "done" }
        /\ UNCHANGED << store, autotune >> ]_vars

\* the window was closed during the handshake, after a request went out
C8_Witness ==
  /\ running = 0 /\ pc = "done" /\ serial = None
  /\ phase = "Handshaking" /\ t40 # None

\* C9: a read that decodes only frames with an index above 19 leaves
\* param1, param2, is_standby and tune_status as they were, returns 0 and
\* is followed by no NewData; both lists keep the indices 0..19.
C9_OutOfRangeDropped ==
  [][ /\ (received' # << >> /\ \A k \in 1..Len(received') : received'[k][1] > 19)
         => /\ UNCHANGED << param1, param2, is_standby, tune_status >>
            /\ change' = 0
            /\ refreshed' = 0
      /\ DOMAIN param1' = 0..(NPARAM - 1)
      /\ DOMAIN param2' = 0..(NPARAM - 1) ]_vars

\* a frame with index 20 was decoded in the steady state loop
C9_Witness ==
  /\ pc = "run_update" /\ received = << << 20, 1, 1 >> >>
  /\ change = 0 /\ refreshed = 0

\* C10 as stated: whenever param1[i] or param2[i] changes, both hold the
\* two values of one frame for index i decoded in that step.
C10_Original ==
  [][ \A i \in 0..(NPARAM - 1) : Changed(i) => PairWritten(i) ]_vars

\* C10 amended: the same for every index but 6; param2[6] alone is also
\* set to None, by a step that decodes a frame for index 9 or 10 or that
\* handles the Standby button, and param1[6] then is what it was or what
\* a frame for index 6 of that step wrote.
C10_PairsButRelayMarker ==
  [][ /\ \A i \in (0..(NPARAM - 1)) \ {6} : Changed(i) => PairWritten(i)
      /\ Changed(6) =>
           \/ PairWritten(6)
           \/ /\ param2'[6] = None
              /\ param1'[6] = IF FramesFor(6) # {} THEN LastFor(6)[2]
                              ELSE param1[6]
              /\ \/ FramesFor(9) # {} \/ FramesFor(10) # {}
                 \/ (standby_var' # standby_var /\ cmd' \in {44, 45}) ]_vars

\* a tune result frame cleared param2[6] and left param1[6]
C10_Witness ==
  /\ received # << >> /\ received[Len(received)][1] = 9
  /\ param1[6] = 0 /\ param2[6] = None /\ param1[9] = 0 /\ param2[9] = 0

\* the parameter lists and the two flags derived from the frames
DeviceState == << param1, param2, is_standby, tune_status >>

\* a frame with an index in 0..19 is among those just decoded
FrameApplied == \E k \in 1..Len(received') : received'[k][1] <= 19

\* C11 as stated: param1, param2, is_standby and tune_status change only in
\* a step that decodes a frame with an index in 0..19; a step that handles a
\* button or hands a code to Write leaves all four as they were.
C11_Original ==
  [][ /\ DeviceState' # DeviceState => FrameApplied
      /\ (nclicks' # nclicks \/ cmd' # None) => DeviceState' = DeviceState ]_vars

\* C11 amended: the same, but for the step that handles the Standby button:
\* it sets param2[6] to None and leaves the rest.
C11_OnlyFramesButStandby ==
  [][ \/ /\ DeviceState' # DeviceState => FrameApplied
         /\ (nclicks' # nclicks \/ cmd' # None) => DeviceState' = DeviceState
      \/ /\ standby_var' # standby_var /\ cmd' \in {44, 45}
         /\ param2' = [param2 EXCEPT ![6] = None]
         /\ UNCHANGED << param1, is_standby, tune_status >> ]_vars

\* a button that is not Standby sent its code in the steady state loop,
\* with the whole update in the lists
C11_Witness ==
  /\ pc = "run_update" /\ nclicks = 1 /\ cmd \in ReqButtons /\ wr = << cmd >>
  /\ param1[17] = 1 /\ param2[6] = 0 /\ is_standby = 0

\* where the frames start in the byte sequence s from position p on: at a
\* sync byte that is not one of the three bytes after an earlier start
RECURSIVE FrameStarts(_, _)
FrameStarts(s, p) ==
  IF p > Len(s) THEN {}
  ELSE IF s[p] = SYNC THEN {p} \cup FrameStarts(s, p + 4)
  ELSE FrameStarts(s, p + 1)

\* the starts of the frames that are complete in s
WholeFrames(s) == { p \in FrameStarts(s, 1) : p + 3 <= Len(s) }

\* the number of bytes of a frame begun and not complete at the end of s
Pending(s) ==
  IF \E p \in FrameStarts(s, 1) : p + 3 > Len(s)
  THEN Len(s) + 1 - (CHOOSE p \in FrameStarts(s, 1) : p + 3 > Len(s))
  ELSE 0

\* C12: over all the bytes Read was given, in however many reads, a triple
\* is decoded exactly when the third byte after a frame start is consumed,
\* a frame start being a byte 165 met in rx_state 0; the triple is those
\* three bytes in order, then rx_state is 0 again, and a 165 among the three
\* bytes is data.
C12_SyncThenThree ==
  [][ LET done == WholeFrames(fed') \ WholeFrames(fed) IN
        /\ Len(received') = Cardinality(done)
        /\ \A p \in done :
             received'[Cardinality({ q \in done : q <= p })]
               = << fed'[p + 1], fed'[p + 2], fed'[p + 3] >>
        /\ rx_state' = Pending(fed') ]_vars

\* a frame whose two values are the sync byte was decoded across two reads
C12_Witness ==
  /\ received = << << 6, SYNC, SYNC >> >> /\ Len(chars) < 4
  /\ param1[6] = SYNC /\ param2[6] = SYNC /\ rx_state = 0

\* no sync byte in s
NoSync(s) == \A k \in 1..Len(s) : s[k] # SYNC

\* cs ends with the four bytes of a frame with an index in 0..19
EndsWithFrame(cs) ==
  Len(cs) >= 4 /\ cs[Len(cs) - 3] = SYNC /\ cs[Len(cs) - 2] <= 19

\* the frame at the end of cs is the last one decoded, and is in the lists
FrameTaken(cs) ==
  LET n == Len(cs) IN
    /\ received' # << >>
    /\ received'[Len(received')] = << cs[n - 2], cs[n - 1], cs[n] >>
    /\ param1'[cs[n - 2]] = cs[n - 1]
    /\ param2'[cs[n - 2]] = cs[n]

\* C13 as stated: a read that starts in rx_state 0 and is given any bytes
\* followed by a frame with an index in 0..19 decodes that frame and
\* stores it.
C13_Original ==
  [][ (rx_state = 0 /\ EndsWithFrame(chars')) => FrameTaken(chars') ]_vars

\* C13 amended: the same, when none of the bytes before the frame is 165.
C13_NoiseWithoutSync ==
  [][ (rx_state = 0 /\ EndsWithFrame(chars')
       /\ NoSync(SubSeq(chars', 1, Len(chars') - 4)))
      => FrameTaken(chars') ]_vars

\* two bytes of noise, then a frame for index 6, in one read
C13_Witness ==
  /\ chars = << 9, 6, SYNC, 6, 9, 9 >> /\ fed = chars
  /\ received = << << 6, 9, 9 >> >> /\ param1[6] = 9 /\ param2[6] = 9

\* the triples ApplyFrame is tried with
DecTriples ==
  { << i, a, b >> : i \in { 0, 6, 9, 10, 13, 14, 19, 20 },
                    a \in { 0, 1, 2, 3 }, b \in { 0, 1 } }

\* st after the triple t
Applied(st, t) == ApplyFrame(st, t[1], t[2], t[3])

\* the four parts of st the frames act on
StoreOf(st) == << st.param1, st.param2, st.is_standby, st.tune_status >>

\* C14: in every state of the lists and flags, applying a triple twice
\* gives the same param1, param2, is_standby and tune_status as applying it
\* once; after an index 9 or 10 triple param2[6] is None both times.
C14_ApplyIdempotent ==
  \A t \in DecTriples :
    /\ StoreOf(Applied(Applied(ReadState, t), t)) = StoreOf(Applied(ReadState, t))
    /\ t[1] \in {9, 10} => Applied(Applied(ReadState, t), t).param2[6] = None

\* the same index 9 frame came twice in a row, after the relay settings
C14_Witness ==
  /\ fed = FrameBytes(6, 1, 1) \o FrameBytes(9, 0, 0) \o FrameBytes(9, 0, 0)
  /\ tune_status = "OK" /\ param1[6] = 1 /\ param2[6] = None
  /\ param1[9] = 0 /\ param2[9] = 0

\* C19: after every read, the triples decoded so far, the lists, the flags
\* and the decoder's position and bytes are what one Read of all the bytes
\* given so far makes of them, however the bytes were split into reads.
C19_SplitReads ==
  [][ LET whole == ReadChars(FreshState, fed')
          sofar == ReadChars(FreshState, fed) IN
        /\ whole.received = sofar.received \o received'
        /\ store' = << whole.param1, whole.param2, whole.is_standby,
                       whole.tune_status, whole.rx_state, whole.rx_byte1,
                       whole.rx_byte2 >> ]_vars

\* a frame was split after its index byte, with an empty read in between
C19_Witness ==
  /\ fed = << SYNC, 6, 9, 6 >> /\ chars = << 9, 6 >>
  /\ received = << << 6, 9, 6 >> >> /\ rx_state = 0

\* the frequency period NewData divides by
FreqCode(p1, p2) == p1[7] * 256 + p2[7]

\* the step runs NewData
RunsNewData ==
  \/ pc = "hs_eval" /\ phase' = "Running"
  \/ pc = "run_read" /\ change' = 1

\* everything NewData reads but the frequency period is there
RestRefreshable(p1, p2, sb) ==
  /\ ~NewDataRaisesEarly(p1, p2, sb)
  /\ p1[16] # None /\ p1[16] <= 6
  /\ p1[1] # None /\ p1[2] # None
  /\ p1[7] # None /\ p2[7] # None

\* C15 as stated: a step that runs NewData while the frequency period
\* param1[7] * 256 + param2[7] is 0, the other values being there, runs it
\* to its end and main() goes on.
C15_Original ==
  [][ (RunsNewData /\ RestRefreshable(param1', param2', is_standby')
       /\ FreqCode(param1', param2') = 0)
      => (refreshed' = 1 /\ pc' # "crashed") ]_vars

\* C16 as stated: a byte goes on the line only by Write and is the one
\* byte Write was handed; a Write that puts it there has asserted RTS before
\* and deasserts it after; and a Write that finds RTS deasserted leaves it
\* deasserted, so that no Read, Write or callback runs between the assert
\* and the deassert of a send.
C16_Original ==
  [][ /\ wr' # << >> => (cmd' # None /\ wr' = << cmd' >> /\ rts' = 0)
      /\ (cmd' # None /\ rts = 0) => rts' = 0 ]_vars

\* the positions of the tune results among the frames just decoded
TuneFrames == { k \in 1..Len(received') : received'[k][1] \in {9, 10} }

\* the latest of them
LastTune == received'[CHOOSE k \in TuneFrames : \A j \in TuneFrames : j <= k]

\* the status a tune result stands for
StatusOf(t) ==
  IF t[1] = 9 THEN "OK"
  ELSE CASE t[2] = 0 -> "No RF"
         [] t[2] = 1 -> "Lost RF"
         [] t[2] = 2 -> "High SWR"
         [] OTHER -> "Error"

\* C17: in the steady state loop, a read that decodes an index 9 or 10
\* frame sets tune_status from the latest of them (OK for 9; No RF, Lost
\* RF, High SWR, Error for the values 0, 1, 2, other of 10) and, unless an
\* index 6 frame follows in the same read, leaves param2[6] None; a pass
\* that finds param2[6] None hands 40 to Write when a second has gone by
\* since the last request and nothing otherwise, never 58 or 59; and
\* param2[6] gets a value again only by an index 6 frame.
C17_TuneResult ==
  [][ /\ (pc = "run_read" /\ TuneFrames # {}) =>
           /\ tune_status' = StatusOf(LastTune)
           /\ (\A k \in FramesFor(6) : \E j \in TuneFrames : j > k)
                => param2'[6] = None
      /\ (pc = "run_eval" /\ param2[6] = None) =>
           /\ cmd' = IF now - time0 >= OneSecond THEN 40 ELSE None
           /\ wr' \in { << >>, << 40 >> }
      /\ (phase = "Running" /\ param2[6] = None /\ param2'[6] # None) =>
           FramesFor(6) # {} ]_vars

\* a failed tune (lost RF) was reported in the steady state loop while the
\* operator wants auto-tune off and the device has it on: the pass after
\* the frame asked for the relay settings
C17_Witness ==
  /\ pc = "run_read" /\ cmd = 40 /\ wr = << 40 >>
  /\ tune_status = "Lost RF" /\ param1[10] = 1 /\ param2[6] = None
  /\ is_standby = 0 /\ autotune = 0 /\ param1[17] = 1

\* the codes of the closed command set
CommandSet ==
  { 1, 2, 3, 4, 5, 6, 8, 9, 10, 11, 40, 41, 44, 45, 46 } \cup (50..56)
    \cup { 58, 59, 63, 64 }

\* C18 as stated: every code handed to Write and every byte put on the
\* line is in the closed command set, and no pass of the steady state loop
\* ends main() with an exception for want of a code to send.
C18_Original ==
  [][ /\ cmd' # None => cmd' \in CommandSet
      /\ \A k \in 1..Len(wr') : wr'[k] \in CommandSet
      /\ (pc = "run_eval" /\ is_standby # None) => pc' # "crashed" ]_vars

\* the indices NewData and the first pass of the steady state loop read
SnapshotSlots == { 1, 2, 3, 4, 5, 7, 16, 17, 18 }

\* C20 as stated: when the handshake loop ends, is_standby has been set by
\* an index 13 or 14 frame, param1 holds a value at each of the indices 1,
\* 2, 3, 4, 5, 7, 16, 17, 18, and NewData runs to its end.
C20_Original ==
  [][ (phase = "Handshaking" /\ phase' = "Running") =>
        /\ is_standby # None
        /\ \A i \in SnapshotSlots : param1[i] # None /\ param2[i] # None
        /\ refreshed' = 1 /\ pc' # "crashed" ]_vars

\* C21 as stated: RTS is deasserted when main() enters the handshake loop
\* and when a Write with the port open returns, whether or not a call of
\* that Write raised; and main() goes on after a Write.
C21_Original ==
  [][ /\ (pc = "conn_update" /\ pc' = "hs_eval") => rts' = 0
      /\ (cmd' # None /\ serial # None) => rts' = 0
      /\ cmd' # None => pc' \notin { "crashed", "done" } ]_vars

\* C22: no pass of the steady state loop and no Read changes autotune; in
\* the steady state loop it changes only by the Auto button, to 0 or 1 as
\* the button says; so a pass that finds standby off, param2[6] set, the
\* device reporting auto-tune 0 and autotune still 1 hands 58, the code that
\* matches autotune 1, to Write.
C22_WishKept ==
  [][ /\ pc \in { "hs_read", "run_eval", "run_read" } => autotune' = autotune
      /\ (phase = "Running" /\ autotune' # autotune) =>
           /\ nclicks' = nclicks + 1 /\ btntune_var' # btntune_var
           /\ autotune' = IF btntune_var' = 1 THEN 0 ELSE 1
      /\ (pc = "run_eval" /\ is_standby = 0 /\ param2[6] # None
          /\ param1[17] = 0 /\ autotune = 1) =>
           (cmd' = 59 - autotune /\ cmd' = 58) ]_vars

\* the handshake ended in standby with auto-tune on, so the first pass
\* sent 59; then the device reported auto-tune off and the end of standby
\* in one burst, and with no button pressed the next pass sent 58
C22_Witness ==
  /\ pc = "run_read" /\ cmd = 58 /\ wr = << 58 >>
  /\ nclicks = 0 /\ nreads = 2
  /\ param1[13] # None /\ param1[14] # None /\ is_standby = 0
  /\ autotune = 1 /\ param1[17] = 0 /\ param2[6] # None

====
